---- MODULE Spec2Model ----
(***************************************************************************)
(* Coin Clash, netlify/functions/play.js: the request handler, its rate    *)
(* limiter and its nonce counter.                                          *)
(*                                                                         *)
(* Numbers.  JavaScript numbers are modelled on integer grids:             *)
(*   money        in cents        (MIN_BET 0.10 = 10, MAX_BET = 2000000)   *)
(*   multipliers  in hundredths   (1.96 = 196, 10.00 = 1000)               *)
(*   rolls        in 1/RollScale  (a roll r stands for r / RollScale)      *)
(*   time         in milliseconds (Date.now())                             *)
(* A JavaScript value read from the request body is a record               *)
(* [type, num, str]; type is what the code's typeof / isNaN tests see.     *)
(***************************************************************************)
EXTENDS Integers, Sequences, FiniteSets, TLC

\* ---------------------------------------------------------------- constants
RTP == 98
MIN_BET == 10
MAX_BET == 2000000
MIN_MULTIPLIER == 196
MAX_MULTIPLIER == 1000
RATE_LIMIT_WINDOW == 2000
RATE_LIMIT_MAX == 5

\* ------------------------------------------------------------------- bounds
RollScale == 1000
Tick == 1000
MaxTicks == 2
MaxWagers == 3
MaxBurst == 6
MaxSessions == 1
MaxLadderNonce == 2

\* -------------------------------------------------------- JavaScript values
Undefined == [type |-> "undefined", num |-> 0, str |-> ""]
NaN == [type |-> "NaN", num |-> 0, str |-> ""]
Num(n) == [type |-> "number", num |-> n, str |-> ""]
Str(s) == [type |-> "string", num |-> 0, str |-> s]

\* typeof v === 'number' && !isNaN(v)
IsValidNumber(v) == v.type = "number"

\* v || dflt
OrElse(v, dflt) ==
  IF \/ v.type = "undefined"
     \/ v.type = "NaN"
     \/ (v.type = "number" /\ v.num = 0)
     \/ (v.type = "string" /\ v.str = "")
  THEN dflt
  ELSE v

\* ------------------------------------------------------------------- inputs
\* event.headers: x-forwarded-for as the list of its comma-separated entries
\* (<<>> when the header is missing or empty), client-ip ("" when missing).
Headers == {[forwarded |-> <<>>, client_ip |-> ""],
            [forwarded |-> <<>>, client_ip |-> "a"],
            [forwarded |-> <<"a", "b">>, client_ip |-> "b"]}

\* JSON.parse(event.body): "unparseable" throws, "null" yields null, "scalar"
\* yields a value without own fields (5, "s", [], true), "object" an object.
Body(json, mode, bet, multiplier, choice) ==
  [json |-> json, mode |-> mode, bet |-> bet, multiplier |-> multiplier,
   player_choice |-> choice, ladder_session_id |-> Undefined]

Bets == {Undefined, Str("x"), NaN, Num(MIN_BET - 5), Num(MIN_BET), Num(MAX_BET),
         Num(MAX_BET + 1)}
Multipliers == {Undefined, NaN, Num(MIN_MULTIPLIER - 1), Num(MIN_MULTIPLIER),
                Num(MAX_MULTIPLIER), Num(MAX_MULTIPLIER + 1)}
Choices == {Undefined, Str("heads"), Str("tails"), Str(""), Str("edge")}
Modes == {Undefined, Str("base_bet"), Str("ladder_step"), Str("cash_out"), Str("spin")}

\* Request bodies: a wager of 10.00 at 2.00x on heads, varied one field at a
\* time, the choices at the lowest multiplier, and the bodies that are no object.
Bodies ==
     {Body("object", Undefined, b, Num(200), Str("heads")) : b \in Bets}
  \cup {Body("object", Undefined, Num(1000), m, Str("heads")) : m \in Multipliers}
  \cup {Body("object", Undefined, Num(1000), m, c) :
          m \in {Num(MIN_MULTIPLIER), Num(200)}, c \in Choices}
  \cup {Body("object", md, Num(1000), Num(200), Str("tails")) : md \in Modes}
  \cup {Body("object", md, Undefined, Undefined, Undefined) : md \in Modes}
  \cup {Body(j, Undefined, Undefined, Undefined, Undefined) :
          j \in {"unparseable", "null", "scalar"}}

\* event.httpMethod values that are neither OPTIONS nor POST.
OtherMethods == {"GET", "DELETE"}

\* The roll grid: the values around RTP/10, RTP/2 and 0.5.
Rolls == {97, 98, 489, 490, 499, 500}

Instants == {k * Tick : k \in 0..MaxTicks}

VARIABLES
  NONCE_COUNTER,   \* let NONCE_COUNTER
  rateLimitStore,  \* const rateLimitStore = new Map(): clientId -> timestamps
  now,             \* Date.now()
  event,           \* the request being answered (NoEvent between requests)
  resp,            \* the response returned for it
  admitted,        \* history of Post: per client id, the instants of its admitted requests
  issued,          \* history: the nonces of the 200 responses, in response order
  sessions,        \* the ladder session store: session id -> session
  timers,          \* the scheduled removals: records [id, due]
  ledger           \* history: per session ever created, its bet, how it ended,
                   \* its cash_out payouts, whether a step was refused at the cap

ladder == <<sessions, timers, ledger>>
vars == <<NONCE_COUNTER, rateLimitStore, now, event, resp, admitted, issued, ladder>>

\* ------------------------------------------------------------- rate limiter
\* Map.prototype.set
MapSet(map, key, value) ==
  [k \in DOMAIN map \cup {key} |-> IF k = key THEN value ELSE map[k]]

\* time => now - time < RATE_LIMIT_WINDOW
InWindowLate(t, time) == t - time <= RATE_LIMIT_WINDOW
InWindow(t, time) == t - time < RATE_LIMIT_WINDOW

\* requests.filter(time => now - time < RATE_LIMIT_WINDOW)
recentRequests(requests, t) ==
  LET Recent(time) == InWindow(t, time) IN SelectSeq(requests, Recent)

\* recentRequests.length >= RATE_LIMIT_MAX
AtLimitLate(n) == n > RATE_LIMIT_MAX
AtLimit(n) == n >= RATE_LIMIT_MAX

\* checkRateLimit pushing now before the length test
checkRateLimitCountDenied(store, clientId, t) ==
  LET store1 == IF clientId \in DOMAIN store THEN store
                ELSE MapSet(store, clientId, <<>>)
      recent == recentRequests(store1[clientId], t)
  IN [allowed |-> ~AtLimit(Len(recent)),
      store |-> MapSet(store1, clientId, Append(recent, t))]

\* checkRateLimit without recentRequests.push(now)
checkRateLimitNoPush(store, clientId, t) ==
  LET store1 == IF clientId \in DOMAIN store THEN store
                ELSE MapSet(store, clientId, <<>>)
      recent == recentRequests(store1[clientId], t)
  IN IF AtLimit(Len(recent))
     THEN [allowed |-> FALSE, store |-> store1]
     ELSE [allowed |-> TRUE, store |-> MapSet(store1, clientId, recent)]

\* checkRateLimit(clientId) at Date.now() = t: the value returned and the
\* store it leaves behind.
checkRateLimit(store, clientId, t) ==
  LET store1 == IF clientId \in DOMAIN store THEN store
                ELSE MapSet(store, clientId, <<>>)
      recent == recentRequests(store1[clientId], t)
  IN IF AtLimit(Len(recent))
     THEN [allowed |-> FALSE, store |-> store1]
     ELSE [allowed |-> TRUE, store |-> MapSet(store1, clientId, Append(recent, t))]

\* getClientId reading client-ip only
getClientIdByIp(headers) ==
  IF headers.client_ip # "" THEN headers.client_ip ELSE "unknown"

\* getClientId(event)
getClientId(headers) ==
  IF headers.forwarded # <<>> THEN Head(headers.forwarded)
  ELSE IF headers.client_ip # "" THEN headers.client_ip
  ELSE "unknown"

ClientIds == {getClientId(h) : h \in Headers}

\* ---------------------------------------------------------------- responses
\* The fields of a response body; a response sets the ones it carries.
NoResult ==
  [did_win |-> FALSE, roll_won |-> FALSE, choice_matched |-> FALSE, payout |-> 0,
   roll |-> 0, win_chance |-> <<0, 1>>, nonce |-> 0, coin_side |-> "",
   ladder_active |-> FALSE, ladder_session_id |-> "", current_multiplier |-> 0,
   can_continue |-> FALSE, did_win_ladder_step |-> FALSE, ladder_over |-> FALSE,
   final_payout |-> 0, final_multiplier |-> 0]

Reply(status, detail) == [statusCode |-> status, detail |-> detail, body |-> NoResult]

\* Math.round(x * 100) / 100 for x = bet * multiplier, in cents: bet is in
\* cents and multiplier in hundredths, so x * 100 = bet * multiplier / 100.
TruncCents(bet, multiplier) == (bet * multiplier) \div 100
RoundCents(bet, multiplier) == (bet * multiplier + 50) \div 100

\* roll < 0.5 ? "heads" : "tails"
coinSideOf(roll) == IF 2 * roll < RollScale THEN "heads" ELSE "tails"

\* roll < winChance, winChance = RTP / req.multiplier
rollWonOf(roll, multiplier) == roll * multiplier < RTP * RollScale

\* Lines 99-208: validation and adjudication of a parsed request req, with the
\* nonce it was given and the roll generateRandom01 returned for it.
Adjudicate(req, nonce, roll) ==
  IF ~IsValidNumber(req.bet) THEN Reply(400, "Bet must be a valid number")
  ELSE IF req.bet.num < MIN_BET THEN Reply(400, "Minimum bet is $0.10")
  ELSE IF req.bet.num > MAX_BET THEN Reply(400, "Maximum bet is $20,000.00")
  ELSE IF ~IsValidNumber(req.multiplier)
    THEN Reply(400, "Multiplier must be a valid number")
  ELSE IF req.multiplier.num < MIN_MULTIPLIER
    THEN Reply(400, "Multiplier must be at least 1.96x")
  ELSE IF req.multiplier.num > MAX_MULTIPLIER
    THEN Reply(400, "Multiplier cannot exceed 10x")
  ELSE
    LET playerChoice == OrElse(req.player_choice, Str("heads")) IN
    IF playerChoice \notin {Str("heads"), Str("tails")}
    THEN Reply(400, "Player choice must be \"heads\" or \"tails\"")
    ELSE
      LET coinSide == coinSideOf(roll)
          rollWon == rollWonOf(roll, req.multiplier.num)
          choiceMatched == Str(coinSide) = playerChoice
          didWin == rollWon /\ choiceMatched
          payout == IF didWin THEN RoundCents(req.bet.num, req.multiplier.num) ELSE 0
      IN [statusCode |-> 200, detail |-> "",
          body |-> [NoResult EXCEPT
                      !.did_win = didWin, !.roll_won = rollWon,
                      !.choice_matched = choiceMatched, !.payout = payout,
                      !.roll = roll, !.win_chance = <<RTP, req.multiplier.num>>,
                      !.nonce = nonce, !.coin_side = coinSide]]

\* ------------------------------------------------------------------ actions
NoEvent == [httpMethod |-> "", headers |-> [forwarded |-> <<>>, client_ip |-> ""],
            body |-> Body("", Undefined, Undefined, Undefined, Undefined)]
NoReply == Reply(0, "")

Init ==
  /\ NONCE_COUNTER = 0
  /\ rateLimitStore = <<>>
  /\ now = 0
  /\ event = NoEvent
  /\ resp = NoReply
  /\ admitted = [c \in ClientIds |-> <<>>]
  /\ issued = <<>>
  /\ sessions = <<>>
  /\ timers = {}
  /\ ledger = <<>>

\* Lines 58-68: CORS pre-flight.
Options(h, b) ==
  /\ event = NoEvent
  /\ event' = [httpMethod |-> "OPTIONS", headers |-> h, body |-> b]
  /\ resp' = Reply(200, "")
  /\ UNCHANGED <<NONCE_COUNTER, rateLimitStore, now, admitted, issued, ladder>>

\* A method test placed after the rate limiter.
NotAllowedCounted(method, h, b) ==
  /\ event = NoEvent
  /\ event' = [httpMethod |-> method, headers |-> h, body |-> b]
  /\ resp' = Reply(405, "Method not allowed")
  /\ rateLimitStore' = checkRateLimit(rateLimitStore, getClientId(h), now).store
  /\ UNCHANGED <<NONCE_COUNTER, now, admitted, issued, ladder>>

\* Lines 70-78: any other method but POST.
NotAllowed(method, h, b) ==
  /\ event = NoEvent
  /\ event' = [httpMethod |-> method, headers |-> h, body |-> b]
  /\ resp' = Reply(405, "Method not allowed")
  /\ UNCHANGED <<NONCE_COUNTER, rateLimitStore, now, admitted, issued, ladder>>

\* NONCE_COUNTER += 1
NonceStuck(n) == n
NextNonce(n) == n + 1

InternalError == Reply(500, "An unexpected error occurred. Please try again.")

\* Lines 94-219 for a request the rate limiter let through, roll being what
\* generateRandom01 yields for its client_seed and nonce: the counter
\* afterwards and the response.
Handle(b, counter, roll) ==
  IF b.json = "unparseable"
  THEN \* JSON.parse throws, the catch block answers
       [counter |-> counter, reply |-> InternalError]
  ELSE IF b.json = "null"
  THEN \* req.bet of null throws after the increment, the catch block answers
       [counter |-> NextNonce(counter), reply |-> InternalError]
  ELSE [counter |-> NextNonce(counter),
        reply |-> Adjudicate(b, NextNonce(counter), roll)]

\* Lines 80-219: a POST, handled in one piece (the handler awaits nothing).
Post(h, b, roll) ==
  LET clientId == getClientId(h)
      limit == checkRateLimit(rateLimitStore, clientId, now)
      done == Handle(b, NONCE_COUNTER, roll)
  IN /\ event = NoEvent
     /\ event' = [httpMethod |-> "POST", headers |-> h, body |-> b]
     /\ rateLimitStore' = limit.store
     /\ UNCHANGED <<now, ladder>>
     /\ IF ~limit.allowed
        THEN /\ resp' = Reply(429, "Too many requests. Please slow down.")
             /\ UNCHANGED <<NONCE_COUNTER, admitted, issued>>
        ELSE /\ admitted' = [admitted EXCEPT ![clientId] = Append(@, now)]
             /\ NONCE_COUNTER' = done.counter
             /\ resp' = done.reply
             /\ issued' = IF done.reply.statusCode = 200
                          THEN Append(issued, done.reply.body.nonce)
                          ELSE issued

\* The response is delivered and the invocation is over.
Return ==
  /\ event # NoEvent
  /\ event' = NoEvent
  /\ resp' = NoReply
  /\ UNCHANGED <<NONCE_COUNTER, rateLimitStore, now, admitted, issued, ladder>>

\* Date.now() moves on, to a later instant of the grid T.
Advance(T) ==
  /\ event = NoEvent
  /\ \E t \in T : t > now /\ now' = t
  /\ UNCHANGED <<NONCE_COUNTER, rateLimitStore, event, resp, admitted, issued, ladder>>

RECURSIVE SumLen(_, _)
SumLen(f, S) ==
  IF S = {} THEN 0
  ELSE LET c == CHOOSE x \in S : TRUE IN Len(f[c]) + SumLen(f, S \ {c})

TotalAdmitted == SumLen(admitted, ClientIds)

\* Requests of other methods carry no body or a wager.
OtherBodies ==
  {Body("unparseable", Undefined, Undefined, Undefined, Undefined),
   Body("object", Undefined, Num(1000), Num(200), Str("heads"))}

\* The handler under every request body, for runs of up to MaxWagers requests.
Next ==
  \/ /\ TotalAdmitted < MaxWagers
     /\ \E h \in Headers, b \in Bodies, roll \in Rolls : Post(h, b, roll)
  \/ \E h \in Headers, b \in OtherBodies : Options(h, b)
  \/ \E method \in OtherMethods, h \in Headers, b \in OtherBodies :
       NotAllowed(method, h, b)
  \/ Return
  \/ Advance(Instants)

Spec == Init /\ [][Next]_vars

\* The handler under bursts of up to MaxBurst admitted requests, with fewer
\* request bodies and rolls.
BurstBodies ==
  {Body("object", Undefined, Num(1000), Num(200), Str("heads")),
   Body("unparseable", Undefined, Undefined, Undefined, Undefined)}

BurstRolls == {489, 490}

NextBurst ==
  \/ /\ TotalAdmitted < MaxBurst
     /\ \E h \in Headers, b \in BurstBodies, roll \in BurstRolls : Post(h, b, roll)
  \/ \E h \in Headers, b \in BurstBodies, roll \in BurstRolls :
       /\ ~checkRateLimit(rateLimitStore, getClientId(h), now).allowed
       /\ Post(h, b, roll)
  \/ \E h \in Headers, b \in OtherBodies : Options(h, b)
  \/ \E method \in OtherMethods, h \in Headers, b \in OtherBodies :
       NotAllowed(method, h, b)
  \/ Return
  \/ Advance(Instants)

SpecBurst == Init /\ [][NextBurst]_vars

\* The handler under one client that sends wagers, requests it answers 400
\* and requests it answers 500, in bursts of up to MaxBurst admitted requests.
GateHeaders == {[forwarded |-> <<>>, client_ip |-> "a"]}

GateBodies ==
  {Body("object", Undefined, Num(1000), Num(200), Str("heads")),
   Body("object", Undefined, Str("x"), Num(200), Str("heads")),
   Body("unparseable", Undefined, Undefined, Undefined, Undefined)}

GateRolls == {489}

NextGate ==
  \/ /\ TotalAdmitted < MaxBurst
     /\ \E h \in GateHeaders, b \in GateBodies, roll \in GateRolls : Post(h, b, roll)
  \/ \E h \in GateHeaders, b \in GateBodies, roll \in GateRolls :
       /\ ~checkRateLimit(rateLimitStore, getClientId(h), now).allowed
       /\ Post(h, b, roll)
  \/ \E h \in GateHeaders, b \in OtherBodies : Options(h, b)
  \/ \E method \in OtherMethods, h \in GateHeaders, b \in OtherBodies :
       NotAllowed(method, h, b)
  \/ Return
  \/ Advance(Instants)

SpecGate == Init /\ [][NextGate]_vars

\* ------------------------------------------------- Standard Ladder variant
\* The three-mode handler (base_bet, ladder_step, cash_out) and its session
\* store, as the specification and the README's API contract describe them.
SESSION_TTL == 300000
LADDER_TIERS == <<150, 200, 300, 400, 500, 700, 1000>>
Tiers == {LADDER_TIERS[i] : i \in DOMAIN LADDER_TIERS}

\* snap_to_tier(m): the first tier t with m <= t, else the top tier.
snap_to_tier(m) ==
  IF \E t \in Tiers : m <= t
  THEN CHOOSE t \in Tiers : m <= t /\ \A u \in Tiers : m <= u => t <= u
  ELSE MAX_MULTIPLIER

\* next_tier(m): the first tier t with t > m, else the cap.
next_tier_skip(m) ==
  IF \E t \in Tiers : t > m + 100
  THEN CHOOSE t \in Tiers : t > m + 100 /\ \A u \in Tiers : u > m + 100 => t <= u
  ELSE MAX_MULTIPLIER
next_tier(m) ==
  IF \E t \in Tiers : t > m
  THEN CHOOSE t \in Tiers : t > m /\ \A u \in Tiers : u > m => t <= u
  ELSE MAX_MULTIPLIER

\* Reject if current_multiplier >= MAX_MULTIPLIER.
AtMaximumNever(m) == FALSE
AtMaximum(m) == m >= MAX_MULTIPLIER

\* Map.prototype.delete
MapDelete(map, key) == [k \in DOMAIN map \ {key} |-> map[k]]

\* get(id) at instant t: the record is present and not yet expired.
IsStored(store, id, t) == id \in DOMAIN store
IsLive(store, id, t) ==
  /\ id \in DOMAIN store
  /\ t < store[id].created_at + SESSION_TTL

\* delete(id) when a session ends by a bust or a cash_out.
KeepSession(store, id) == store
EndSession(store, id) == MapDelete(store, id)

\* The ids create() hands out, in order: fresh 16-byte random hex strings.
IdNames == <<"s1", "s2", "s3", "s4">>
NewId == IdNames[Cardinality(DOMAIN ledger) + 1]
UnknownId == "deadbeef"

LadderBody(mode, bet, choice, id) ==
  [Body("object", mode, bet, Undefined, choice) EXCEPT !.ladder_session_id = id]

\* The mode of a parsed request: base_bet when unset.
ModeOf(b) == OrElse(b.mode, Str("base_bet"))

\* The validator of a base_bet: "" when the request passes, else the detail.
BaseBetFault(b) ==
  IF ~IsValidNumber(b.bet) THEN "Bet must be a valid number"
  ELSE IF b.bet.num < MIN_BET THEN "Minimum bet is $0.10"
  ELSE IF b.bet.num > MAX_BET THEN "Maximum bet is $20,000.00"
  ELSE IF b.player_choice # Undefined
          /\ b.player_choice \notin {Str("heads"), Str("tails")}
    THEN "Player choice must be \"heads\" or \"tails\""
  ELSE ""

\* What a request the rate limiter let through does: the response and the
\* process state it leaves.  roll is the HMAC roll, flip the fair coin
\* (0 heads / success, 1 tails / bust), draw the initial multiplier drawn.
Outcome(reply, counter, store, tms, led) ==
  [reply |-> reply, counter |-> counter, sessions |-> store, timers |-> tms,
   ledger |-> led]

Rejected(detail) == Outcome(Reply(400, detail), NONCE_COUNTER, sessions, timers, ledger)

base_bet(b, roll, flip, draw) ==
  IF BaseBetFault(b) # "" THEN Rejected(BaseBetFault(b))
  ELSE
    LET nonce == NextNonce(NONCE_COUNTER)
        coinSide == IF flip = 0 THEN "heads" ELSE "tails"
        playerChoice == OrElse(b.player_choice, Str("heads"))
        didWin == Str(coinSide) = playerChoice
        m0 == snap_to_tier(draw)
        id == NewId
        common == [NoResult EXCEPT !.roll = roll, !.nonce = nonce,
                                   !.coin_side = coinSide]
    IN IF ~didWin
       THEN Outcome([statusCode |-> 200, detail |-> "", body |-> common],
                    nonce, sessions, timers, ledger)
       ELSE Outcome(
              [statusCode |-> 200, detail |-> "",
               body |-> [common EXCEPT !.did_win = TRUE, !.current_multiplier = m0,
                                       !.can_continue = m0 < MAX_MULTIPLIER,
                                       !.ladder_active = TRUE,
                                       !.ladder_session_id = id]],
              nonce,
              MapSet(sessions, id, [bet_amount |-> b.bet.num,
                                    current_multiplier |-> m0,
                                    created_at |-> now]),
              timers \cup {[id |-> id, due |-> now + SESSION_TTL]},
              MapSet(ledger, id, [bet |-> b.bet.num, end |-> "", payouts |-> 0,
                                  refused |-> FALSE]))

ladder_step(b, flip) ==
  IF b.ladder_session_id.type # "string" \/ b.ladder_session_id.str = ""
  THEN Rejected("Missing ladder_session_id")
  ELSE
    LET id == b.ladder_session_id.str IN
    IF ~IsLive(sessions, id, now) THEN Rejected("Invalid or expired ladder session")
    ELSE IF AtMaximum(sessions[id].current_multiplier)
    THEN Outcome(Reply(400, "Already at maximum multiplier"), NONCE_COUNTER,
                 sessions, timers, [ledger EXCEPT ![id].refused = TRUE])
    ELSE IF flip = 1
    THEN Outcome([statusCode |-> 200, detail |-> "",
                  body |-> [NoResult EXCEPT !.ladder_over = TRUE]],
                 NONCE_COUNTER, EndSession(sessions, id), timers,
                 [ledger EXCEPT ![id].end = "bust"])
    ELSE LET m == next_tier(sessions[id].current_multiplier)
         IN Outcome([statusCode |-> 200, detail |-> "",
                     body |-> [NoResult EXCEPT !.did_win_ladder_step = TRUE,
                                               !.current_multiplier = m,
                                               !.can_continue = m < MAX_MULTIPLIER]],
                    NONCE_COUNTER,
                    [sessions EXCEPT ![id].current_multiplier = m], timers,
                    ledger)

cash_out(b) ==
  IF b.ladder_session_id.type # "string" \/ b.ladder_session_id.str = ""
  THEN Rejected("Missing ladder_session_id")
  ELSE
    LET id == b.ladder_session_id.str IN
    IF ~IsLive(sessions, id, now) THEN Rejected("Invalid or expired ladder session")
    ELSE LET session == sessions[id]
             finalPayout == RoundCents(session.bet_amount, session.current_multiplier)
         IN Outcome([statusCode |-> 200, detail |-> "",
                     body |-> [NoResult EXCEPT
                                 !.final_payout = finalPayout,
                                 !.final_multiplier = session.current_multiplier,
                                 !.ladder_over = TRUE]],
                    NONCE_COUNTER, EndSession(sessions, id), timers,
                    [ledger EXCEPT ![id].end = "cash_out", ![id].payouts = @ + 1])

Dispatch(b, roll, flip, draw) ==
  IF b.json # "object" THEN Rejected("Invalid JSON body")
  ELSE IF ModeOf(b) = Str("base_bet") THEN base_bet(b, roll, flip, draw)
  ELSE IF ModeOf(b) = Str("ladder_step") THEN ladder_step(b, flip)
  ELSE IF ModeOf(b) = Str("cash_out") THEN cash_out(b)
  ELSE Rejected("Invalid mode")

\* A POST to the three-mode handler, handled in one piece.
LadderPost(h, b, roll, flip, draw) ==
  LET clientId == getClientId(h)
      limit == checkRateLimit(rateLimitStore, clientId, now)
      done == Dispatch(b, roll, flip, draw)
  IN /\ event = NoEvent
     /\ event' = [httpMethod |-> "POST", headers |-> h, body |-> b]
     /\ rateLimitStore' = limit.store
     /\ UNCHANGED <<now, admitted>>
     /\ IF ~limit.allowed
        THEN /\ resp' = Reply(429, "Too many requests. Please slow down.")
             /\ UNCHANGED <<NONCE_COUNTER, issued, ladder>>
        ELSE /\ NONCE_COUNTER' = done.counter
             /\ resp' = done.reply
             /\ issued' = IF done.counter # NONCE_COUNTER
                          THEN Append(issued, done.counter)
                          ELSE issued
             /\ sessions' = done.sessions
             /\ timers' = done.timers
             /\ ledger' = done.ledger

\* The removal scheduled at creation runs, at or after its due instant.
Expire(tm) ==
  /\ event = NoEvent
  /\ tm \in timers
  /\ tm.due <= now
  /\ timers' = timers \ {tm}
  /\ sessions' = MapDelete(sessions, tm.id)
  /\ ledger' = IF tm.id \in DOMAIN sessions
               THEN [ledger EXCEPT ![tm.id].end = "expired"]
               ELSE ledger
  /\ UNCHANGED <<NONCE_COUNTER, rateLimitStore, now, event, resp, admitted, issued>>

\* The three-mode handler under one client, for up to MaxSessions sessions
\* and MaxLadderNonce wagers.
LadderHeaders == {[forwarded |-> <<"a", "b">>, client_ip |-> "b"]}

LadderIds == {Undefined, Str(UnknownId)} \cup {Str(IdNames[k]) : k \in 1..MaxSessions}

LadderBodies ==
     {LadderBody(Undefined, Num(MIN_BET + 5), Str("heads"), Undefined),
      LadderBody(Str("base_bet"), Num(MIN_BET - 5), Str("tails"), Undefined),
      LadderBody(Str("spin"), Num(MIN_BET + 5), Str("heads"), Undefined),
      Body("unparseable", Undefined, Undefined, Undefined, Undefined)}
  \cup {LadderBody(md, Undefined, Undefined, id) :
          md \in {Str("ladder_step"), Str("cash_out")}, id \in LadderIds}

LadderRolls == {489}
Flips == {0, 1}
\* initial_multiplier(): a draw from [1.20, 3.00], at the ends and around the tiers
Draws == {120, 151, 300}

\* One rate-limit window after the start, and the instants at which the
\* sessions created before reach SESSION_TTL.
LadderInstants ==
  {0, RATE_LIMIT_WINDOW, SESSION_TTL, SESSION_TTL + RATE_LIMIT_WINDOW}

NextLadder ==
  \/ \E h \in LadderHeaders, b \in LadderBodies, roll \in LadderRolls,
        flip \in Flips, draw \in Draws :
       /\ ModeOf(b) = Str("base_bet") =>
            /\ Cardinality(DOMAIN ledger) < MaxSessions
            /\ NONCE_COUNTER < MaxLadderNonce
       /\ LadderPost(h, b, roll, flip, draw)
  \/ \E tm \in timers : Expire(tm)
  \/ Return
  \/ Advance(LadderInstants)

SpecLadder == Init /\ [][NextLadder]_vars

\* ------------------------------------------------------------------- claims
IsPost == event.httpMethod = "POST"
Arrives == event = NoEvent /\ event' # NoEvent
PostArrives == Arrives /\ event'.httpMethod = "POST"
Ok == IsPost /\ resp.statusCode = 200

\* C1: the nonces carried by the 200 responses of one process are strictly
\* increasing in response order, so no two responses carry the same nonce.
C1_NoncesStrictlyIncrease ==
  \A i, j \in DOMAIN issued : i < j => issued[i] < issued[j]

\* C1 witness: a second 200 response has been returned, and a request that
\* was answered otherwise took a nonce in between.
C1_Witness ==
  /\ Ok
  /\ Len(issued) = 2
  /\ issued[2] > issued[1] + 1

\* C2 (as claimed): a POST answered 400 leaves the nonce counter unchanged,
\* and the k-th 200 response of the process carries nonce k.
C2_NonceOnlyAfterValidation ==
  [][/\ (PostArrives /\ resp'.statusCode = 400) => NONCE_COUNTER' = NONCE_COUNTER
     /\ \A k \in DOMAIN issued' : issued'[k] = k]_vars

\* The number of requests of client c admitted within the last
\* RATE_LIMIT_WINDOW ms before t.
AdmittedWithin(c, t) ==
  Cardinality({i \in DOMAIN admitted[c] : t - admitted[c][i] < RATE_LIMIT_WINDOW})

\* C3: a POST of a client is denied with 429 exactly when RATE_LIMIT_MAX
\* requests of that client were admitted within the last RATE_LIMIT_WINDOW ms,
\* and is let through when fewer were.
C3_SlidingWindow ==
  [][PostArrives =>
       (resp'.statusCode = 429
          <=> AdmittedWithin(getClientId(event'.headers), now) >= RATE_LIMIT_MAX)]_vars

\* C3 witness: a client that had filled its window is admitted again, for the
\* (RATE_LIMIT_MAX + 1)-th time, after the window has elapsed.
C3_Witness ==
  /\ IsPost
  /\ resp.statusCode # 429
  /\ LET c == getClientId(event.headers)
     IN /\ Len(admitted[c]) = RATE_LIMIT_MAX + 1
        /\ admitted[c][RATE_LIMIT_MAX] + RATE_LIMIT_WINDOW <= now
        /\ admitted[c][1] = admitted[c][RATE_LIMIT_MAX]

\* The side the player chose: heads when player_choice is unset.
ChoiceOf(b) == IF b.player_choice = Undefined THEN "heads" ELSE b.player_choice.str

\* C4 (as claimed): in a 200 response, did_win holds exactly when coin_side is
\* the side the player chose.
C4_WinIffChoiceMatches ==
  (Ok /\ event.body.player_choice \in {Undefined, Str("heads"), Str("tails")})
    => (resp.body.did_win <=> resp.body.coin_side = ChoiceOf(event.body))

\* C5 (as claimed): every 200 response to a wager carries payout 0.
C5_BaseBetPaysNothing == Ok => resp.body.payout = 0

\* ---------------------------------------------------- claims on the ladder
\* A request to mode md naming session id arrives and passes the rate limiter.
LadderCall(md, id) ==
  /\ PostArrives
  /\ resp'.statusCode # 429
  /\ event'.body.json = "object"
  /\ ModeOf(event'.body) = Str(md)
  /\ event'.body.ladder_session_id = Str(id)

Unstored == "Invalid or expired ladder session"

TierIndex(m) == CHOOSE i \in DOMAIN LADDER_TIERS : LADDER_TIERS[i] = m

Usable(id, t) ==
  /\ id \in DOMAIN sessions
  /\ t - sessions[id].created_at < SESSION_TTL

UnknownAnswer(md) ==
  Dispatch(LadderBody(Str(md), Undefined, Undefined, Str(UnknownId)), 0, 0, 0).reply

Admitted == PostArrives /\ resp'.statusCode # 429

\* The values the counter can stand at when a request of the runs arrives.
Counters == 0..MaxWagers

\* C11 (as claimed): the roll does not decide the coin side, so for the roll
\* of every 200 response some wager meeting the same roll, whatever its
\* fields and its nonce, is answered with the other coin side.
C11_RollDoesNotDecide ==
  Ok => \E b \in Bodies, n \in Counters :
          LET other == Handle(b, n, resp.body.roll).reply
          IN /\ other.statusCode = 200
             /\ other.body.roll = resp.body.roll
             /\ other.body.coin_side # resp.body.coin_side

\* C12 (as claimed): a POST whose body is not a JSON object (unparseable
\* text, null, or another value that is no object), once past the rate
\* limiter, is answered 400 and leaves the nonce counter unchanged.
C12_BadBodyIs400 ==
  [][(Admitted /\ event'.body.json # "object")
       => /\ resp'.statusCode = 400
          /\ NONCE_COUNTER' = NONCE_COUNTER]_vars

RecognizedModes == {Str("base_bet"), Str("ladder_step"), Str("cash_out")}

\* C13 (as claimed): a POST of a JSON object whose mode is present and is
\* none of base_bet, ladder_step, cash_out, once past the rate limiter, is
\* answered 400 whatever its other fields are.
C13_UnknownModeIs400 ==
  [][(/\ Admitted
      /\ event'.body.json = "object"
      /\ event'.body.mode # Undefined
      /\ event'.body.mode \notin RecognizedModes)
       => resp'.statusCode = 400]_vars

\* A wager of the Standard Ladder contract: mode base_bet or none, a numeric
\* bet within the limits, a choice of heads, tails or none, no multiplier.
IsLadderWager(b) ==
  /\ b.json = "object"
  /\ b.mode \in {Undefined, Str("base_bet")}
  /\ IsValidNumber(b.bet)
  /\ MIN_BET <= b.bet.num
  /\ b.bet.num <= MAX_BET
  /\ b.player_choice \in {Undefined, Str("heads"), Str("tails")}
  /\ b.multiplier = Undefined

\* C14 (as claimed): a wager without a multiplier field, once past the rate
\* limiter, is answered 200, and the first request of a process, when it is
\* such a wager, gets nonce 1.
C14_WagerNeedsNoMultiplier ==
  [][(Admitted /\ IsLadderWager(event'.body))
       => /\ resp'.statusCode = 200
          /\ NONCE_COUNTER = 0 => resp'.body.nonce = 1]_vars

\* C17 (as claimed): a wager whose player_choice is present but is neither
\* heads nor tails, the empty string included, is answered 400 once past the
\* rate limiter.
C17_BadChoiceIs400 ==
  [][(/\ Admitted
      /\ event'.body.json = "object"
      /\ event'.body.player_choice # Undefined
      /\ event'.body.player_choice \notin {Str("heads"), Str("tails")})
       => resp'.statusCode = 400]_vars

\* ------------------------------------------------ claims on the rate limiter
\* The stored bucket of client c, empty when the store has none.
BucketOf(store, c) == IF c \in DOMAIN store THEN store[c] ELSE <<>>

\* The entries of a bucket that are less than RATE_LIMIT_WINDOW ms old at t.
Fresh(bucket, t) == {i \in DOMAIN bucket : t - bucket[i] < RATE_LIMIT_WINDOW}

\* C15: the rate limiter decides before the body is read: a client with
\* RATE_LIMIT_MAX requests admitted within the window gets 429 whatever the
\* body is, with the counter untouched; and every POST that is let through,
\* whether answered 200, 400 or 500, adds its instant to the client's bucket,
\* which then counts one more entry within the window.
C15_LimitBeforeParse ==
  [][PostArrives =>
       LET c == getClientId(event'.headers)
           before == BucketOf(rateLimitStore, c)
           after == BucketOf(rateLimitStore', c)
       IN /\ AdmittedWithin(c, now) >= RATE_LIMIT_MAX
               => /\ resp'.statusCode = 429
                  /\ NONCE_COUNTER' = NONCE_COUNTER
          /\ resp'.statusCode \in {200, 400, 429, 500}
          /\ resp'.statusCode # 429
               => /\ after # <<>>
                  /\ after[Len(after)] = now
                  /\ Cardinality(Fresh(after, now))
                       = Cardinality(Fresh(before, now)) + 1]_vars

\* C15 witness: an unparseable request is denied with 429 after the client
\* has filled its window with requests of which one was answered 500 (it
\* took no nonce) and one 400 (it took a nonce that no 200 response carries).
C15_Witness ==
  /\ IsPost
  /\ resp.statusCode = 429
  /\ event.body.json = "unparseable"
  /\ LET c == getClientId(event.headers)
     IN /\ AdmittedWithin(c, now) = RATE_LIMIT_MAX
        /\ Len(admitted[c]) = RATE_LIMIT_MAX
  /\ NONCE_COUNTER < RATE_LIMIT_MAX
  /\ Len(issued) < NONCE_COUNTER

\* The client id as the claim words it: the first entry of x-forwarded-for,
\* else client-ip, else the literal unknown.
ClaimedId(h) ==
  IF Len(h.forwarded) > 0 THEN h.forwarded[1]
  ELSE IF h.client_ip # "" THEN h.client_ip
  ELSE "unknown"

\* C16: a POST touches no bucket but the one of its own client id, and it is
\* denied exactly when RATE_LIMIT_MAX requests carrying that same client id
\* were admitted within the window, whatever the other clients have sent.
C16_KeyedByClientId ==
  [][PostArrives =>
       LET c == ClaimedId(event'.headers)
       IN /\ \A d \in (DOMAIN rateLimitStore \cup DOMAIN rateLimitStore') \ {c} :
               /\ d \in DOMAIN rateLimitStore
               /\ d \in DOMAIN rateLimitStore'
               /\ rateLimitStore'[d] = rateLimitStore[d]
          /\ c \in DOMAIN admitted
          /\ resp'.statusCode = 429 <=> AdmittedWithin(c, now) >= RATE_LIMIT_MAX]_vars

\* C16 witness: a request whose x-forwarded-for names a client other than its
\* client-ip is admitted at an instant at which another client id is at its
\* limit.
C16_Witness ==
  /\ IsPost
  /\ resp.statusCode # 429
  /\ Len(event.headers.forwarded) > 0
  /\ event.headers.client_ip # ClaimedId(event.headers)
  /\ \E d \in DOMAIN admitted :
       /\ d # ClaimedId(event.headers)
       /\ AdmittedWithin(d, now) >= RATE_LIMIT_MAX

\* C18: a POST answered 429 changes nothing: the nonce counter, every stored
\* bucket and the sessions are what they were before it.
C18_DeniedChangesNothing ==
  [][(PostArrives /\ resp'.statusCode = 429)
       => UNCHANGED <<NONCE_COUNTER, rateLimitStore, now, issued, ladder>>]_vars

\* C18 witness: a request is denied at an instant later than every entry of
\* its client's bucket, so that counting it would prolong the throttling.
C18_Witness ==
  /\ IsPost
  /\ resp.statusCode = 429
  /\ LET bucket == BucketOf(rateLimitStore, getClientId(event.headers))
     IN /\ Len(bucket) = RATE_LIMIT_MAX
        /\ \A i \in DOMAIN bucket : bucket[i] < now

\* C19: every stored bucket holds at most RATE_LIMIT_MAX timestamps.
C19_BucketBounded ==
  \A c \in DOMAIN rateLimitStore : Len(rateLimitStore[c]) <= RATE_LIMIT_MAX

\* C19 witness: a client that has been admitted more than RATE_LIMIT_MAX
\* times has a full bucket with entries of different instants.
C19_Witness ==
  \E c \in DOMAIN rateLimitStore :
    /\ Len(admitted[c]) > RATE_LIMIT_MAX
    /\ Len(rateLimitStore[c]) = RATE_LIMIT_MAX
    /\ rateLimitStore[c][1] < rateLimitStore[c][RATE_LIMIT_MAX]

\* C20: an OPTIONS request is answered 200 and a request of any method other
\* than OPTIONS and POST is answered 405, also for a client at its limit, and
\* neither changes the nonce counter, a bucket or the sessions.
C20_OtherMethods ==
  [][(Arrives /\ event'.httpMethod # "POST")
       => /\ resp'.statusCode = IF event'.httpMethod = "OPTIONS" THEN 200 ELSE 405
          /\ UNCHANGED <<NONCE_COUNTER, rateLimitStore, now, issued, ladder>>]_vars

\* C20 witness: a DELETE request of a client that is at its limit is
\* answered 405.
C20_Witness ==
  /\ event.httpMethod = "DELETE"
  /\ resp.statusCode = 405
  /\ NONCE_COUNTER > 0
  /\ AdmittedWithin(getClientId(event.headers), now) >= RATE_LIMIT_MAX

====
